---- MODULE Spec2Model ----
(***************************************************************************)
(* Model of the HelloWorld SFDX project:                                   *)
(*   - the Apex class HelloWorldController (getGreeting,                   *)
(*     getCurrentDateTime),                                                *)
(*   - the Lightning Web Component helloWorld (fields, connectedCallback,  *)
(*     handleNameChange, handleGetGreeting, loadCurrentDateTime),          *)
(*   - the three GitHub Actions workflows (PR validation, push to develop, *)
(*     push to main) as sequential step lists.                             *)
(* Strings are sequences of one-character strings, so that blankness,      *)
(* escaping, formatting and concatenation are computed character by        *)
(* character.                                                              *)
(***************************************************************************)
EXTENDS Integers, Sequences, FiniteSets, TLC

(***************************************************************************)
(* Bounds                                                                  *)
(***************************************************************************)
\* longest name handed to HelloWorldController.getGreeting
MaxLen == 3
\* number of sampled instants after BaseMinutes for DateTime.now()
MaxSamples == 20
\* first sampled instant, 2025-06-04 10:30, in minutes since 1970-01-01 00:00
BaseMinutes == 20243 * 1440 + 10 * 60 + 30
\* distance between two sampled instants, in minutes
StrideMinutes == 76753
\* number of clicks on the get-greeting button in one run
MaxRequests == 2

(***************************************************************************)
(* Values: Apex null, JavaScript undefined, and strings                    *)
(***************************************************************************)
NULL == [t |-> "null", v |-> <<>>]

UNDEFINED == [t |-> "undefined", v |-> <<>>]

Str(s) == [t |-> "string", v |-> s]

IsString(x) == x.t = "string"

\* s contains sub as a contiguous substring
Contains(s, sub) ==
    \E i \in 1..(Len(s) - Len(sub) + 1) : SubSeq(s, i, i + Len(sub) - 1) = sub

\* all sequences over S of length at most n
SeqsUpTo(S, n) == UNION {[1..k -> S] : k \in 0..n}

(***************************************************************************)
(* HelloWorldController (Apex)                                             *)
(***************************************************************************)
HelloWorldText == <<"H","e","l","l","o",","," ","W","o","r","l","d","!">>

HelloPrefix == <<"H","e","l","l","o",","," ">>

Bang == <<"!">>

\* characters String.isBlank treats as white space
Whitespace == {" ", "\t", "\n", "\r", "\f"}

\* characters a name is built from
Alphabet == {" ", "\t", "a", "'"}

\* the String arguments of getGreeting: null and every short string
Names == {NULL} \cup {Str(s) : s \in SeqsUpTo(Alphabet, MaxLen)}

\* String.isBlank replaced by a test for null or empty only
isBlank_EmptyOnly(name) ==
    \/ name.t = "null"
    \/ name.t = "undefined"
    \/ name.v = <<>>

\* String.isBlank: null, empty or white space only
isBlank(name) ==
    \/ name.t = "null"
    \/ name.t = "undefined"
    \/ \A i \in 1..Len(name.v) : name.v[i] \in Whitespace

\* String.escapeSingleQuotes: a backslash before every single quote
RECURSIVE escapeSingleQuotes(_)
escapeSingleQuotes(s) ==
    IF s = <<>> THEN <<>>
    ELSE (IF Head(s) = "'" THEN <<"\\", "'">> ELSE <<Head(s)>>)
         \o escapeSingleQuotes(Tail(s))

\* getGreeting with the comma of the prefix dropped
getGreeting_NoComma(name) ==
    IF isBlank(name) THEN Str(HelloWorldText)
    ELSE Str(<<"H","e","l","l","o"," ">> \o escapeSingleQuotes(name.v) \o Bang)

\* HelloWorldController.getGreeting(String name)
getGreeting(name) ==
    IF isBlank(name) THEN Str(HelloWorldText)
    ELSE Str(HelloPrefix \o escapeSingleQuotes(name.v) \o Bang)

(***************************************************************************)
(* DateTime.now().format('EEEE, MMMM dd, yyyy \'at\' h:mm a')              *)
(***************************************************************************)
Digits == <<"0","1","2","3","4","5","6","7","8","9">>

Digit(d) == Digits[d + 1]

\* decimal digits of a natural number, no padding
RECURSIVE ToDec(_)
ToDec(n) == IF n < 10 THEN <<Digit(n)>> ELSE ToDec(n \div 10) \o <<Digit(n % 10)>>

\* decimal digits padded with zeros on the left to width w
RECURSIVE PadLeft(_, _)
PadLeft(s, w) == IF Len(s) >= w THEN s ELSE PadLeft(<<"0">> \o s, w)

DayNames ==
    << <<"S","u","n","d","a","y">>,
       <<"M","o","n","d","a","y">>,
       <<"T","u","e","s","d","a","y">>,
       <<"W","e","d","n","e","s","d","a","y">>,
       <<"T","h","u","r","s","d","a","y">>,
       <<"F","r","i","d","a","y">>,
       <<"S","a","t","u","r","d","a","y">> >>

MonthNames ==
    << <<"J","a","n","u","a","r","y">>,
       <<"F","e","b","r","u","a","r","y">>,
       <<"M","a","r","c","h">>,
       <<"A","p","r","i","l">>,
       <<"M","a","y">>,
       <<"J","u","n","e">>,
       <<"J","u","l","y">>,
       <<"A","u","g","u","s","t">>,
       <<"S","e","p","t","e","m","b","e","r">>,
       <<"O","c","t","o","b","e","r">>,
       <<"N","o","v","e","m","b","e","r">>,
       <<"D","e","c","e","m","b","e","r">> >>

\* the instants DateTime.now() is sampled at
Instants == {BaseMinutes + k * StrideMinutes : k \in 0..MaxSamples}

\* calendar fields of an instant given in minutes since 1970-01-01 00:00
Civil(now) ==
    LET days == now \div 1440
        z    == days + 719468
        era  == z \div 146097
        doe  == z - era * 146097
        yoe  == (doe - (doe \div 1460) + (doe \div 36524) - (doe \div 146096)) \div 365
        doy  == doe - (365 * yoe + (yoe \div 4) - (yoe \div 100))
        mp   == (5 * doy + 2) \div 153
        d    == doy - ((153 * mp + 2) \div 5) + 1
        m    == IF mp < 10 THEN mp + 3 ELSE mp - 9
        y    == yoe + era * 400 + (IF m <= 2 THEN 1 ELSE 0)
    IN  [year |-> y, month |-> m, day |-> d,
         dow |-> ((days + 4) % 7) + 1,
         hour |-> (now % 1440) \div 60, minute |-> now % 60]

AtLiteral == <<"a","t">>

\* the pattern without its quoted literal: EEEE, MMMM dd, yyyy h:mm a
format_NoLiteral(c) ==
    DayNames[c.dow] \o <<",", " ">>
    \o MonthNames[c.month] \o <<" ">>
    \o PadLeft(ToDec(c.day), 2) \o <<",", " ">>
    \o PadLeft(ToDec(c.year), 4) \o <<" ">>
    \o ToDec(IF c.hour % 12 = 0 THEN 12 ELSE c.hour % 12) \o <<":">>
    \o PadLeft(ToDec(c.minute), 2) \o <<" ">>
    \o (IF c.hour < 12 THEN <<"A","M">> ELSE <<"P","M">>)

\* the pattern EEEE, MMMM dd, yyyy 'at' h:mm a applied to calendar fields
format(c) ==
    DayNames[c.dow] \o <<",", " ">>
    \o MonthNames[c.month] \o <<" ">>
    \o PadLeft(ToDec(c.day), 2) \o <<",", " ">>
    \o PadLeft(ToDec(c.year), 4) \o <<" ">>
    \o AtLiteral \o <<" ">>
    \o ToDec(IF c.hour % 12 = 0 THEN 12 ELSE c.hour % 12) \o <<":">>
    \o PadLeft(ToDec(c.minute), 2) \o <<" ">>
    \o (IF c.hour < 12 THEN <<"A","M">> ELSE <<"P","M">>)

\* HelloWorldController.getCurrentDateTime() at the instant now
getCurrentDateTime(now) == Str(format(Civil(now)))

(***************************************************************************)
(* JavaScript evaluation used by the helloWorld component                  *)
(***************************************************************************)
\* ToBoolean: undefined, null and the empty string are falsy
Truthy(x) == x.t = "string" /\ x.v # <<>>

\* a || b
JsOr(a, b) == IF Truthy(a) THEN a ELSE b

\* ToString, as applied by the + operator to its right operand
JsToString(x) ==
    CASE x.t = "string"    -> x.v
      [] x.t = "undefined" -> <<"u","n","d","e","f","i","n","e","d">>
      [] x.t = "null"      -> <<"n","u","l","l">>

ErrorPrefix == <<"E","r","r","o","r",":"," ">>

ErrorLoadingText ==
    <<"E","r","r","o","r"," ","l","o","a","d","i","n","g"," ",
      "d","a","t","e","/","t","i","m","e">>

SomethingWentWrong ==
    <<"S","o","m","e","t","h","i","n","g"," ","w","e","n","t"," ",
      "w","r","o","n","g">>

NetworkError == <<"N","e","t","w","o","r","k"," ","e","r","r","o","r">>

\* placeholder in the error slot of a call that has not been rejected
NoError ==
    [nullish |-> FALSE, hasBody |-> FALSE, bodyMessage |-> UNDEFINED,
     message |-> UNDEFINED]

\* an error value: nullish stands for a rejection with undefined itself
ErrorValue(nullish, hasBody, bodyMessage, message) ==
    [nullish |-> nullish, hasBody |-> hasBody, bodyMessage |-> bodyMessage,
     message |-> message]

\* the values a backend call can be rejected with:
\*   undefined, {}, new Error("Network error"),
\*   { body: { message: "Something went wrong" } },
\*   { body: { message: "Something went wrong" }, message: "Network error" },
\*   { body: { message: "" }, message: "Network error" }
ErrorValues ==
    { ErrorValue(TRUE, FALSE, UNDEFINED, UNDEFINED),
      ErrorValue(FALSE, FALSE, UNDEFINED, UNDEFINED),
      ErrorValue(FALSE, FALSE, UNDEFINED, Str(NetworkError)),
      ErrorValue(FALSE, TRUE, Str(SomethingWentWrong), UNDEFINED),
      ErrorValue(FALSE, TRUE, Str(SomethingWentWrong), Str(NetworkError)),
      ErrorValue(FALSE, TRUE, Str(<<>>), Str(NetworkError)) }

\* error.body?.message
OptBodyMessage(error) == IF error.hasBody THEN error.bodyMessage ELSE UNDEFINED

\* the values typed into the lightning-input
InputValues == {<<>>, <<"A","l">>, <<"O","'","B">>}

\* a JavaScript argument as the Apex method receives it
ToApex(x) == IF x.t = "undefined" THEN NULL ELSE x

(***************************************************************************)
(* State                                                                   *)
(***************************************************************************)
VARIABLES
    \* HelloWorldController, called directly
    apexMethod,       \* the method last invoked, "none" before any call
    apexArg,          \* the name argument of that call
    apexNow,          \* DateTime.now() of that call
    apexResult,       \* the value it returned
    \* helloWorld component
    greeting,         \* @track greeting
    currentDateTime,  \* @track currentDateTime
    userName,         \* @track userName
    connected,        \* connectedCallback has run
    inputValue,       \* value of the lightning-input (event.target.value)
    dtReq,            \* the getCurrentDateTime call of loadCurrentDateTime
    greetReqs,        \* the getGreeting calls of handleGetGreeting, in issue order
    lastSettled,      \* index of the getGreeting call settled last, 0 if none
    uncaught,         \* async handlers whose promise was rejected
    \* one run of a GitHub Actions workflow
    ciWorkflow,       \* "none" before the trigger, then "pr", "develop" or "main"
    ciPc,             \* index of the next step of the job
    ciStatus,         \* per step: "pending", "success", "failure" or "skipped"
    ciExit,           \* per step: exit code of its script, -1 if it has not run
    ciRuns,           \* per step: how many times its script was started
    ciApexTests,      \* env.APEX_TESTS
    ciHasCls,         \* changed-sources holds at least one *.cls file
    ciDeployResult,   \* index of the step that wrote deploy_result.json, 0 if absent
    ciDeploys,        \* the sf project deploy start invocations, in order
    ciDumped,         \* what the display-on-failure step printed
    ciConclusion      \* conclusion of the job, "none" while it runs

apexVars == <<apexMethod, apexArg, apexNow, apexResult>>

lwcVars ==
    <<greeting, currentDateTime, userName, connected, inputValue, dtReq,
      greetReqs, lastSettled, uncaught>>

ciVars ==
    <<ciWorkflow, ciPc, ciStatus, ciExit, ciRuns, ciApexTests, ciHasCls,
      ciDeployResult, ciDeploys, ciDumped, ciConclusion>>

vars == <<apexVars, lwcVars, ciVars>>

InitApex ==
    /\ apexMethod = "none"
    /\ apexArg = NULL
    /\ apexNow = 0
    /\ apexResult = NULL

\* field initialisers of class HelloWorld
InitLwc ==
    /\ greeting = Str(HelloWorldText)
    /\ currentDateTime = Str(<<>>)
    /\ userName = Str(<<>>)
    /\ connected = FALSE
    /\ inputValue = Str(<<>>)
    /\ dtReq = [status |-> "none", value |-> UNDEFINED, error |-> NoError]
    /\ greetReqs = <<>>
    /\ lastSettled = 0
    /\ uncaught = {}

InitCi ==
    /\ ciWorkflow = "none"
    /\ ciPc = 0
    /\ ciStatus = <<>>
    /\ ciExit = <<>>
    /\ ciRuns = <<>>
    /\ ciApexTests = <<>>
    /\ ciHasCls = FALSE
    /\ ciDeployResult = 0
    /\ ciDeploys = <<>>
    /\ ciDumped = "none"
    /\ ciConclusion = "none"

Init == InitApex /\ InitLwc /\ InitCi

(***************************************************************************)
(* HelloWorldController called directly (as HelloWorldControllerTest does) *)
(***************************************************************************)
CallGetGreeting(name) ==
    /\ apexMethod' = "getGreeting"
    /\ apexArg' = name
    /\ apexNow' = 0
    /\ apexResult' = getGreeting(name)
    /\ UNCHANGED <<lwcVars, ciVars>>

CallGetCurrentDateTime(now) ==
    /\ apexMethod' = "getCurrentDateTime"
    /\ apexArg' = NULL
    /\ apexNow' = now
    /\ apexResult' = getCurrentDateTime(now)
    /\ UNCHANGED <<lwcVars, ciVars>>

NextApex ==
    \/ \E name \in Names : CallGetGreeting(name)
    \/ \E now \in Instants : CallGetCurrentDateTime(now)

SpecApex == Init /\ [][NextApex]_vars

(***************************************************************************)
(* helloWorld component                                                    *)
(***************************************************************************)
\* a call that passes an empty name instead of this.userName
greetingRequest_Empty(user) ==
    [name |-> Str(<<>>), status |-> "pending", value |-> UNDEFINED,
     error |-> NoError]

\* the argument object { name: this.userName } of the getGreeting call
greetingRequest(user) ==
    [name |-> user, status |-> "pending", value |-> UNDEFINED, error |-> NoError]

\* try branch of handleGetGreeting: this.greeting = await getGreeting(...)
greetingOnResolve(result) == result

\* catch branch with the operands of || swapped:
\*   "Error: " + (error.message || error.body?.message)
greetingOnReject_MessageFirst(error) ==
    IF error.nullish
    THEN [threw |-> TRUE, value |-> UNDEFINED]
    ELSE [threw |-> FALSE,
          value |-> Str(ErrorPrefix
                        \o JsToString(JsOr(error.message, OptBodyMessage(error))))]

\* catch branch of handleGetGreeting:
\*   this.greeting = "Error: " + (error.body?.message || error.message)
\* reading a property of undefined throws a TypeError out of the catch
greetingOnReject(error) ==
    IF error.nullish
    THEN [threw |-> TRUE, value |-> UNDEFINED]
    ELSE [threw |-> FALSE,
          value |-> Str(ErrorPrefix
                        \o JsToString(JsOr(OptBodyMessage(error), error.message)))]

\* try branch of loadCurrentDateTime: this.currentDateTime = await ...
dateTimeOnResolve(result) == result

\* catch branch that reports the detail as handleGetGreeting does:
\*   this.currentDateTime = "Error: " + error.message
dateTimeOnReject_WithDetail(error) ==
    IF error.nullish
    THEN [threw |-> TRUE, value |-> UNDEFINED]
    ELSE [threw |-> FALSE, value |-> Str(ErrorPrefix \o JsToString(error.message))]

\* catch branch of loadCurrentDateTime: the error is not read
dateTimeOnReject(error) == [threw |-> FALSE, value |-> Str(ErrorLoadingText)]

\* connectedCallback that does not call loadCurrentDateTime
connectedCallback_NoLoad ==
    /\ ~connected
    /\ connected' = TRUE
    /\ UNCHANGED <<greeting, currentDateTime, userName, inputValue, dtReq,
                   greetReqs, lastSettled, uncaught>>
    /\ UNCHANGED <<apexVars, ciVars>>

\* connectedCallback: calls loadCurrentDateTime, which issues the backend
\* call and suspends at the await
connectedCallback ==
    /\ ~connected
    /\ connected' = TRUE
    /\ dtReq' = [status |-> "pending", value |-> UNDEFINED, error |-> NoError]
    /\ UNCHANGED <<greeting, currentDateTime, userName, inputValue, greetReqs,
                   lastSettled, uncaught>>
    /\ UNCHANGED <<apexVars, ciVars>>

\* the user edits the input; its change event runs handleNameChange
handleNameChange(value) ==
    /\ connected
    /\ inputValue' = Str(value)
    /\ userName' = Str(value)
    /\ UNCHANGED <<greeting, currentDateTime, connected, dtReq, greetReqs,
                   lastSettled, uncaught>>
    /\ UNCHANGED <<apexVars, ciVars>>

\* click on the button: handleGetGreeting up to its await
handleGetGreeting ==
    /\ connected
    /\ Len(greetReqs) < MaxRequests
    /\ greetReqs' = Append(greetReqs, greetingRequest(userName))
    /\ UNCHANGED <<greeting, currentDateTime, userName, connected, inputValue,
                   dtReq, lastSettled, uncaught>>
    /\ UNCHANGED <<apexVars, ciVars>>

\* the backend answers call i with HelloWorldController.getGreeting(name);
\* handleGetGreeting resumes in its try branch
GetGreetingResolves(i) ==
    /\ greetReqs[i].status = "pending"
    /\ LET result == getGreeting(ToApex(greetReqs[i].name))
       IN  /\ greetReqs' = [greetReqs EXCEPT ![i].status = "resolved",
                                             ![i].value = result]
           /\ greeting' = greetingOnResolve(result)
    /\ lastSettled' = i
    /\ UNCHANGED <<currentDateTime, userName, connected, inputValue, dtReq,
                   uncaught>>
    /\ UNCHANGED <<apexVars, ciVars>>

\* call i is rejected with error; handleGetGreeting resumes in its catch
GetGreetingRejects(i, error) ==
    /\ greetReqs[i].status = "pending"
    /\ greetReqs' = [greetReqs EXCEPT ![i].status = "rejected",
                                      ![i].error = error]
    /\ LET caught == greetingOnReject(error)
       IN  IF caught.threw
           THEN /\ uncaught' = uncaught \cup {"handleGetGreeting"}
                /\ UNCHANGED greeting
           ELSE /\ greeting' = caught.value
                /\ UNCHANGED uncaught
    /\ lastSettled' = i
    /\ UNCHANGED <<currentDateTime, userName, connected, inputValue, dtReq>>
    /\ UNCHANGED <<apexVars, ciVars>>

\* the backend answers with HelloWorldController.getCurrentDateTime();
\* loadCurrentDateTime resumes in its try branch
GetCurrentDateTimeResolves(now) ==
    /\ dtReq.status = "pending"
    /\ LET result == getCurrentDateTime(now)
       IN  /\ dtReq' = [dtReq EXCEPT !.status = "resolved", !.value = result]
           /\ currentDateTime' = dateTimeOnResolve(result)
    /\ UNCHANGED <<greeting, userName, connected, inputValue, greetReqs,
                   lastSettled, uncaught>>
    /\ UNCHANGED <<apexVars, ciVars>>

\* catch of loadCurrentDateTime that assigns its text to this.greeting
GetCurrentDateTimeRejects_SetsGreeting(error) ==
    /\ dtReq.status = "pending"
    /\ dtReq' = [dtReq EXCEPT !.status = "rejected", !.error = error]
    /\ greeting' = dateTimeOnReject(error).value
    /\ UNCHANGED <<currentDateTime, userName, connected, inputValue, greetReqs,
                   lastSettled, uncaught>>
    /\ UNCHANGED <<apexVars, ciVars>>

\* the call is rejected with error; loadCurrentDateTime resumes in its catch
GetCurrentDateTimeRejects(error) ==
    /\ dtReq.status = "pending"
    /\ dtReq' = [dtReq EXCEPT !.status = "rejected", !.error = error]
    /\ LET caught == dateTimeOnReject(error)
       IN  IF caught.threw
           THEN /\ uncaught' = uncaught \cup {"loadCurrentDateTime"}
                /\ UNCHANGED currentDateTime
           ELSE /\ currentDateTime' = caught.value
                /\ UNCHANGED uncaught
    /\ UNCHANGED <<greeting, userName, connected, inputValue, greetReqs,
                   lastSettled>>
    /\ UNCHANGED <<apexVars, ciVars>>

\* the instants the backend answers loadCurrentDateTime at
ResponseInstants == {BaseMinutes, BaseMinutes + StrideMinutes}

Next ==
    \/ connectedCallback
    \/ \E value \in InputValues : handleNameChange(value)
    \/ handleGetGreeting
    \/ \E i \in 1..Len(greetReqs) : GetGreetingResolves(i)
    \/ \E i \in 1..Len(greetReqs) : \E error \in ErrorValues :
            GetGreetingRejects(i, error)
    \/ \E now \in ResponseInstants : GetCurrentDateTimeResolves(now)
    \/ \E error \in ErrorValues : GetCurrentDateTimeRejects(error)

Spec == Init /\ [][Next]_vars

(***************************************************************************)
(* GitHub Actions workflows                                                *)
(***************************************************************************)
Step(name, kind, cond) == [name |-> name, kind |-> kind, cond |-> cond]

\* steps of job validate-deployment-on-develop-org (pull request on develop)
PrSteps ==
    << Step("actions/setup-node@v3", "plain", "success"),
       Step("Checkout source code", "plain", "success"),
       Step("Read PR Body", "readPrBody", "success"),
       Step("Install Salesforce CLI", "plain", "success"),
       Step("Installing sfdx git delta", "plain", "success"),
       Step("Installing java", "plain", "success"),
       Step("Installing SFDX scanner", "plain", "success"),
       Step("Populate auth file with SFDX_URL secret of integration org",
            "plain", "success"),
       Step("Authenticate to Integration Org", "plain", "success"),
       Step("Create delta packages for new, modified or deleted metadata",
            "plain", "success"),
       Step("Scan code", "plain", "success"),
       Step("Upload SARIF file", "plain", "success"),
       Step("Check-only deploy delta changes - run specified tests",
            "deploySpecified", "testsNotAll"),
       Step("Check-only deploy delta changes - run all tests",
            "deployDelta", "testsAll"),
       Step("Display deployment results on failure", "display", "failure"),
       Step("Deploy destructive changes (if any)", "destructive", "success") >>

\* steps of job deploy-branch-to-int-org (push to develop)
DevelopSteps ==
    << Step("actions/setup-node@v3", "plain", "success"),
       Step("Checkout source code", "plain", "success"),
       Step("Install Salesforce CLI", "plain", "success"),
       Step("Installing sfdx git delta", "plain", "success"),
       Step("Populate auth file with SFDX_URL secret of integration org",
            "plain", "success"),
       Step("Authenticate to Integration Org", "plain", "success"),
       Step("Create delta packages for new, modified or deleted metadata",
            "plain", "success"),
       Step("Deploy the entire branch to Integration org",
            "deployDelta", "success"),
       Step("Display deployment results on failure", "display", "failure"),
       Step("Deploy destructive changes (if any) to Integration org",
            "destructive", "success") >>

\* steps of job deploy-branch-to-production-org (push to main)
MainSteps ==
    << Step("actions/setup-node@v3", "plain", "success"),
       Step("Checkout source code", "plain", "success"),
       Step("Install Salesforce CLI", "plain", "success"),
       Step("Installing sfdx git delta", "plain", "success"),
       Step("Populate auth file with SFDX_URL secret of the production org",
            "plain", "success"),
       Step("Authenticate to Production Org", "plain", "success"),
       Step("Create delta packages for new, modified or deleted metadata",
            "plain", "success"),
       Step("Deploy the entire branch to Production org",
            "deployDelta", "success"),
       Step("Display deployment results on failure", "display", "failure"),
       Step("Deploy destructive changes (if any) to Production org",
            "destructive", "success") >>

Workflows == {"pr", "develop", "main"}

Steps(w) ==
    CASE w = "pr"      -> PrSteps
      [] w = "develop" -> DevelopSteps
      [] w = "main"    -> MainSteps
      [] OTHER         -> <<>>

\* the org the job authenticates to with --set-default --alias
TargetOrg(w) == IF w = "main" THEN "production" ELSE "integration"

\* the deployments of the pull-request workflow are check-only
DryRun(w) == w = "pr"

\* github.actor values: the job-level if skips the job for dependabot
Actors == {"dependabot[bot]", "developer"}

JobRuns(actor) == actor # "dependabot[bot]"

UpperLetters ==
    <<"A","B","C","D","E","F","G","H","I","J","K","L","M",
      "N","O","P","Q","R","S","T","U","V","W","X","Y","Z">>

LowerLetters ==
    <<"a","b","c","d","e","f","g","h","i","j","k","l","m",
      "n","o","p","q","r","s","t","u","v","w","x","y","z">>

LowerChar(c) ==
    IF \E k \in 1..26 : UpperLetters[k] = c
    THEN LowerLetters[CHOOSE k \in 1..26 : UpperLetters[k] = c]
    ELSE c

\* == of the workflow expression language ignores case on strings
GhEquals(a, b) ==
    /\ Len(a) = Len(b)
    /\ \A k \in 1..Len(a) : LowerChar(a[k]) = LowerChar(b[k])

AllLiteral == <<"a","l","l">>

\* contents of testsToRun.txt that the Read PR Body step can find
TestSelectors ==
    { AllLiteral,
      <<"A","L","L">>,
      <<>>,
      <<"F","o","o","T","e","s","t",",","B","a","r","T","e","s","t">>,
      <<"A",","," ","B">> }

\* the words the shell splits an unquoted text into
RECURSIVE Words(_)
Words(s) ==
    IF s = <<>> THEN <<>>
    ELSE IF Head(s) = " " THEN Words(Tail(s))
    ELSE LET n == IF \E k \in 1..Len(s) : s[k] = " "
                  THEN (CHOOSE k \in 1..Len(s) :
                            s[k] = " " /\ \A h \in 1..(k - 1) : s[h] # " ") - 1
                  ELSE Len(s)
         IN  <<SubSeq(s, 1, n)>> \o Words(SubSeq(s, n + 1, Len(s)))

JsonFlag == <<"-","-","j","s","o","n">>

\* the word that follows --tests in
\*   sf project deploy start ... --tests ${{env.APEX_TESTS}} --json
\* once the expression is substituted into the script and the shell has
\* split the line
TestsArgument(apexTests) == Words(apexTests \o <<" ">> \o JsonFlag)[1]

\* success(): no earlier step of the job has failed
StatusSuccess(status, pc) == \A j \in 1..(pc - 1) : status[j] # "failure"

\* failure(): some earlier step of the job has failed
StatusFailure(status, pc) == \E j \in 1..(pc - 1) : status[j] = "failure"

\* step conditions without the implied success(): a step without an if:
\* always runs
StepCondition_NoImpliedSuccess(cond, status, pc, apexTests) ==
    CASE cond = "success"     -> TRUE
      [] cond = "testsNotAll" -> ~GhEquals(apexTests, AllLiteral)
      [] cond = "testsAll"    -> GhEquals(apexTests, AllLiteral)
      [] cond = "failure"     -> StatusFailure(status, pc)

\* the if: of a step; a step without a status function in its if: runs
\* under an implied success()
StepCondition(cond, status, pc, apexTests) ==
    CASE cond = "success"     -> StatusSuccess(status, pc)
      [] cond = "testsNotAll" -> /\ StatusSuccess(status, pc)
                                 /\ ~GhEquals(apexTests, AllLiteral)
      [] cond = "testsAll"    -> /\ StatusSuccess(status, pc)
                                 /\ GhEquals(apexTests, AllLiteral)
      [] cond = "failure"     -> StatusFailure(status, pc)

\* continue-on-error is false: a script that exits non-zero fails its step
StepOutcome(exit) == IF exit = 0 THEN "success" ELSE "failure"

\* the step a finished step hands control to: steps run once, in order
NextStep(pc, exit) == pc + 1

\* the test of the if inverted: tests run only when no class is found
TestLevel_Inverted(hasCls) == IF hasCls THEN "NoTestRun" ELSE "RunLocalTests"

\* if find changed-sources -name "*.cls" -type f | grep -q .
TestLevel(hasCls) == IF hasCls THEN "RunLocalTests" ELSE "NoTestRun"

\* conclusion of a job whose steps have all been decided
JobConclusion(status) ==
    IF \E j \in 1..Len(status) : status[j] = "failure"
    THEN "failure" ELSE "success"

ExitCodes == {0, 1}

CurrentStep == Steps(ciWorkflow)[ciPc]

AtStep(kind) ==
    /\ ciWorkflow \in Workflows
    /\ ciConclusion = "none"
    /\ ciPc \in 1..Len(Steps(ciWorkflow))
    /\ CurrentStep.kind = kind
    /\ StepCondition(CurrentStep.cond, ciStatus, ciPc, ciApexTests)

\* bookkeeping shared by every step that runs its script
Ran(exit) ==
    /\ ciStatus' = [ciStatus EXCEPT ![ciPc] = StepOutcome(exit)]
    /\ ciExit' = [ciExit EXCEPT ![ciPc] = exit]
    /\ ciRuns' = [ciRuns EXCEPT ![ciPc] = @ + 1]
    /\ ciPc' = NextStep(ciPc, exit)

\* a pull request or a push starts the job of workflow w
Trigger(w, actor, hasCls) ==
    /\ ciWorkflow = "none"
    /\ ciWorkflow' = w
    /\ ciHasCls' = hasCls
    /\ ciExit' = [j \in 1..Len(Steps(w)) |-> -1]
    /\ ciRuns' = [j \in 1..Len(Steps(w)) |-> 0]
    /\ IF JobRuns(actor)
       THEN /\ ciPc' = 1
            /\ ciStatus' = [j \in 1..Len(Steps(w)) |-> "pending"]
            /\ ciConclusion' = "none"
       ELSE /\ ciPc' = Len(Steps(w)) + 1
            /\ ciStatus' = [j \in 1..Len(Steps(w)) |-> "skipped"]
            /\ ciConclusion' = "skipped"
    /\ UNCHANGED <<ciApexTests, ciDeployResult, ciDeploys, ciDumped>>
    /\ UNCHANGED <<apexVars, lwcVars>>

\* the if: of the current step is false
SkipStep ==
    /\ ciWorkflow \in Workflows
    /\ ciConclusion = "none"
    /\ ciPc \in 1..Len(Steps(ciWorkflow))
    /\ ~StepCondition(CurrentStep.cond, ciStatus, ciPc, ciApexTests)
    /\ ciStatus' = [ciStatus EXCEPT ![ciPc] = "skipped"]
    /\ ciPc' = ciPc + 1
    /\ UNCHANGED <<ciWorkflow, ciExit, ciRuns, ciApexTests, ciHasCls,
                   ciDeployResult, ciDeploys, ciDumped, ciConclusion>>
    /\ UNCHANGED <<apexVars, lwcVars>>

\* a step that installs, checks out, authenticates, computes the delta,
\* scans or uploads
RunPlainStep(exit) ==
    /\ AtStep("plain")
    /\ Ran(exit)
    /\ UNCHANGED <<ciWorkflow, ciApexTests, ciHasCls, ciDeployResult,
                   ciDeploys, ciDumped, ciConclusion>>
    /\ UNCHANGED <<apexVars, lwcVars>>

\* Read PR Body: APEX_TESTS=$(cat testsToRun.txt) goes to $GITHUB_ENV when
\* every command of the script succeeds
RunReadPrBody(exit, selector) ==
    /\ AtStep("readPrBody")
    /\ Ran(exit)
    /\ ciApexTests' = IF exit = 0 THEN selector ELSE ciApexTests
    /\ UNCHANGED <<ciWorkflow, ciHasCls, ciDeployResult, ciDeploys, ciDumped,
                   ciConclusion>>
    /\ UNCHANGED <<apexVars, lwcVars>>

\* Check-only deploy delta changes - run specified tests
RunDeploySpecified(exit) ==
    /\ AtStep("deploySpecified")
    /\ Ran(exit)
    /\ ciDeploys' = Append(ciDeploys,
            [step |-> ciPc, dir |-> "changed-sources/force-app",
             org |-> TargetOrg(ciWorkflow), dryRun |-> DryRun(ciWorkflow),
             testLevel |-> "RunSpecifiedTests",
             tests |-> TestsArgument(ciApexTests),
             exit |-> exit])
    /\ UNCHANGED <<ciWorkflow, ciApexTests, ciHasCls, ciDeployResult, ciDumped,
                   ciConclusion>>
    /\ UNCHANGED <<apexVars, lwcVars>>

\* Deploy the entire branch / Check-only deploy delta changes - run all
\* tests: the redirection creates deploy_result.json whatever sf returns
RunDeployDelta(exit) ==
    /\ AtStep("deployDelta")
    /\ Ran(exit)
    /\ ciDeploys' = Append(ciDeploys,
            [step |-> ciPc, dir |-> "changed-sources/force-app",
             org |-> TargetOrg(ciWorkflow), dryRun |-> DryRun(ciWorkflow),
             testLevel |-> TestLevel(ciHasCls), tests |-> <<>>,
             exit |-> exit])
    /\ ciDeployResult' = ciPc
    /\ UNCHANGED <<ciWorkflow, ciApexTests, ciHasCls, ciDumped, ciConclusion>>
    /\ UNCHANGED <<apexVars, lwcVars>>

\* Display deployment results on failure
RunDisplayOnFailure ==
    /\ AtStep("display")
    /\ Ran(0)
    /\ ciDumped' = IF ciDeployResult # 0 THEN "deploy_result.json" ELSE "nothing"
    /\ UNCHANGED <<ciWorkflow, ciApexTests, ciHasCls, ciDeployResult,
                   ciDeploys, ciConclusion>>
    /\ UNCHANGED <<apexVars, lwcVars>>

\* Deploy destructive changes (if any)
RunDestructive(exit) ==
    /\ AtStep("destructive")
    /\ Ran(exit)
    /\ ciDeploys' = Append(ciDeploys,
            [step |-> ciPc, dir |-> "changed-sources/destructiveChanges",
             org |-> TargetOrg(ciWorkflow), dryRun |-> DryRun(ciWorkflow),
             testLevel |-> "default", tests |-> <<>>, exit |-> exit])
    /\ UNCHANGED <<ciWorkflow, ciApexTests, ciHasCls, ciDeployResult, ciDumped,
                   ciConclusion>>
    /\ UNCHANGED <<apexVars, lwcVars>>

\* every step has run or been skipped: the job concludes
FinishJob ==
    /\ ciWorkflow \in Workflows
    /\ ciConclusion = "none"
    /\ ciPc > Len(Steps(ciWorkflow))
    /\ ciConclusion' = JobConclusion(ciStatus)
    /\ UNCHANGED <<ciWorkflow, ciPc, ciStatus, ciExit, ciRuns, ciApexTests,
                   ciHasCls, ciDeployResult, ciDeploys, ciDumped>>
    /\ UNCHANGED <<apexVars, lwcVars>>

NextCi ==
    \/ \E w \in Workflows : \E actor \in Actors : \E hasCls \in BOOLEAN :
            Trigger(w, actor, hasCls)
    \/ SkipStep
    \/ \E exit \in ExitCodes : RunPlainStep(exit)
    \/ \E exit \in ExitCodes : \E selector \in TestSelectors :
            RunReadPrBody(exit, selector)
    \/ \E exit \in ExitCodes : RunDeploySpecified(exit)
    \/ \E exit \in ExitCodes : RunDeployDelta(exit)
    \/ RunDisplayOnFailure
    \/ \E exit \in ExitCodes : RunDestructive(exit)
    \/ FinishJob

SpecCi == Init /\ [][NextCi]_vars

(***************************************************************************)
(* Properties                                                              *)
(***************************************************************************)
\* a name that is absent, empty or made of white space only
BlankName(name) ==
    \/ name = NULL
    \/ /\ name.t = "string"
       /\ \A i \in 1..Len(name.v) : name.v[i] \in {" ", "\t", "\n", "\r", "\f"}

\* C1: for every blank or absent name (null, the empty string, a string of
\* white space only) getGreeting returns exactly "Hello, World!"
C1_BlankNameGivesHelloWorld ==
    (apexMethod = "getGreeting" /\ BlankName(apexArg))
        => apexResult = Str(<<"H","e","l","l","o",","," ","W","o","r","l","d","!">>)

\* getGreeting was called with a space followed by a tab and returned the
\* default greeting
C1_Witness ==
    /\ apexMethod = "getGreeting"
    /\ apexArg = Str(<<" ", "\t">>)
    /\ apexResult = Str(HelloWorldText)

\* C2: for every non-blank name n without a character that needs escaping
\* getGreeting returns exactly "Hello, " + n + "!"
C2_PlainNameIsEmbedded ==
    (/\ apexMethod = "getGreeting"
     /\ ~BlankName(apexArg)
     /\ \A i \in 1..Len(apexArg.v) : apexArg.v[i] # "'")
        => apexResult = Str(<<"H","e","l","l","o",","," ">> \o apexArg.v \o <<"!">>)

\* getGreeting was called with " a" and kept the leading space
C2_Witness ==
    /\ apexMethod = "getGreeting"
    /\ apexArg = Str(<<" ", "a">>)
    /\ apexResult = Str(<<"H","e","l","l","o",","," "," ","a","!">>)

\* the getGreeting call that settled last
LastCall == greetReqs[lastSettled]

\* the getGreeting call that settled last was rejected with an object that
\* carries a string in body.message
RejectedWithBodyMessage ==
    /\ lastSettled # 0
    /\ LastCall.status = "rejected"
    /\ ~LastCall.error.nullish
    /\ LastCall.error.hasBody
    /\ LastCall.error.bodyMessage.t = "string"

\* C3 as stated: whenever the getGreeting call is rejected with an error
\* carrying a message m in error.body.message, the greeting becomes
\* "Error: " + m
C3_Original ==
    RejectedWithBodyMessage
        => greeting = Str(ErrorPrefix \o LastCall.error.bodyMessage.v)

\* C3 amended: whenever the getGreeting call is rejected with an error
\* carrying a non-empty message m in error.body.message, the greeting
\* becomes "Error: " + m
C3_NonEmptyBodyMessageIsShown ==
    (RejectedWithBodyMessage /\ LastCall.error.bodyMessage.v # <<>>)
        => greeting = Str(ErrorPrefix \o LastCall.error.bodyMessage.v)

\* a rejection carrying both body.message "Something went wrong" and
\* message "Network error" was handled and the body message is displayed
C3_Witness ==
    /\ RejectedWithBodyMessage
    /\ LastCall.error.bodyMessage = Str(SomethingWentWrong)
    /\ LastCall.error.message = Str(NetworkError)
    /\ greeting = Str(ErrorPrefix \o SomethingWentWrong)

\* the detail an error value carries: its non-empty body.message, else its
\* non-empty message
HasDetail(error) ==
    /\ ~error.nullish
    /\ \/ Truthy(OptBodyMessage(error))
       \/ Truthy(error.message)

Detail(error) ==
    IF Truthy(OptBodyMessage(error)) THEN OptBodyMessage(error).v
    ELSE error.message.v

\* a text fit to be shown to the user: a non-empty string that does not
\* spell out a missing value
UserFacing(x) ==
    /\ x.t = "string"
    /\ x.v # <<>>
    /\ ~Contains(x.v, <<"u","n","d","e","f","i","n","e","d">>)
    /\ ~Contains(x.v, <<"n","u","l","l">>)

\* C4: every failure of a backend call is caught and a user-facing message
\* is displayed, with the failure detail if there is one and a generic
\* fallback text otherwise, also for a getGreeting rejection that carries
\* neither a body message nor a message
C4_FailureShowsDetailOrFallback ==
    /\ uncaught = {}
    /\ (lastSettled # 0 /\ LastCall.status = "rejected")
         => IF HasDetail(LastCall.error)
            THEN greeting = Str(ErrorPrefix \o Detail(LastCall.error))
            ELSE /\ UserFacing(greeting)
                 /\ SubSeq(greeting.v, 1, 5) = <<"E","r","r","o","r">>
    /\ dtReq.status = "rejected" => UserFacing(currentDateTime)

\* C5: whenever the getCurrentDateTime call is rejected, whatever the error
\* value, the date/time text becomes "Error loading date/time" and the
\* promise of loadCurrentDateTime is not rejected
C5_DateTimeFailureIsGeneric ==
    dtReq.status = "rejected"
        => /\ currentDateTime =
                Str(<<"E","r","r","o","r"," ","l","o","a","d","i","n","g"," ",
                      "d","a","t","e","/","t","i","m","e">>)
           /\ "loadCurrentDateTime" \notin uncaught

\* the date/time call was rejected with undefined itself and the generic
\* text is displayed
C5_Witness ==
    /\ dtReq.status = "rejected"
    /\ dtReq.error.nullish
    /\ currentDateTime = Str(ErrorLoadingText)

\* C6: for every instant the string getCurrentDateTime returns is not
\* null, not empty and contains the literal "at" of the pattern, between
\* the year and the time
C6_DateTimeContainsAt ==
    apexMethod = "getCurrentDateTime"
        => /\ apexResult.t = "string"
           /\ apexResult.v # <<>>
           /\ Contains(apexResult.v, <<"a","t">>)
           /\ Contains(apexResult.v, <<" ","a","t"," ">>)

\* getCurrentDateTime at 2025-06-04 10:30 returned
\* "Wednesday, June 04, 2025 at 10:30 AM"
C6_Witness ==
    /\ apexMethod = "getCurrentDateTime"
    /\ apexNow = 20243 * 1440 + 630
    /\ apexResult =
        Str(<<"W","e","d","n","e","s","d","a","y",","," ",
              "J","u","n","e"," ","0","4",","," ","2","0","2","5"," ",
              "a","t"," ","1","0",":","3","0"," ","A","M">>)

\* C7: once the component is connected getCurrentDateTime has been called;
\* the greeting is "Hello, World!" as long as no handleGetGreeting call has
\* settled; once the date/time call has resolved with d the date/time
\* text is d
C7_ConnectedLoadsDateTime ==
    /\ connected => dtReq.status # "none"
    /\ lastSettled = 0 => greeting = Str(HelloWorldText)
    /\ dtReq.status = "resolved" => currentDateTime = dtReq.value

\* the date/time call has resolved while a getGreeting call for a typed
\* name is still pending, and the default greeting is displayed
C7_Witness ==
    /\ connected
    /\ dtReq.status = "resolved"
    /\ currentDateTime = dtReq.value
    /\ Len(greetReqs) > 0
    /\ greetReqs[1].name # Str(<<>>)
    /\ lastSettled = 0
    /\ greeting = Str(HelloWorldText)

\* C8: a click calls getGreeting with the value of the most recent change
\* event (the empty string if there was none), and when the call resolves
\* with g the greeting is g
C8_ClickSendsLatestName ==
    [][/\ Len(greetReqs') = Len(greetReqs) + 1
            => greetReqs'[Len(greetReqs')].name = inputValue
       /\ (lastSettled' # lastSettled
           /\ greetReqs'[lastSettled'].status = "resolved")
            => greeting' = greetReqs'[lastSettled'].value]_vars

\* after the name was changed more than once a click sent O'B and the
\* answer of the backend is displayed
C8_Witness ==
    /\ lastSettled # 0
    /\ LastCall.status = "resolved"
    /\ LastCall.name = Str(<<"O","'","B">>)
    /\ inputValue = Str(<<"A","l">>)
    /\ greeting = Str(<<"H","e","l","l","o",","," ","O","\\","'","B","!">>)

\* what the component displays for a settled getGreeting call
Displayed(call) ==
    IF call.status = "resolved" THEN call.value
    ELSE Str(ErrorPrefix
             \o JsToString(JsOr(OptBodyMessage(call.error), call.error.message)))

\* C9: at most one getGreeting call of the component is pending at any
\* time, so once all calls have settled the greeting is the result of the
\* call issued last
C9_CallsDoNotOverlap ==
    /\ Cardinality({i \in 1..Len(greetReqs) : greetReqs[i].status = "pending"}) <= 1
    /\ (/\ Len(greetReqs) > 0
        /\ \A i \in 1..Len(greetReqs) : greetReqs[i].status # "pending")
         => greeting = Displayed(greetReqs[Len(greetReqs)])

\* step i of the running workflow is guarded by failure()
GuardedByFailure(i) == Steps(ciWorkflow)[i].cond = "failure"

\* C10: in each workflow a step whose script exits non-zero fails, and a
\* failed step fails the job; no step runs twice; after a failed step no
\* later step runs except the one guarded by failure(); the destructive
\* changes are never deployed after a failed delta deployment
C10_FailureIsTerminal ==
    ciWorkflow \in Workflows =>
        /\ \A i \in 1..Len(ciStatus) :
              /\ ciExit[i] > 0 => ciStatus[i] = "failure"
              /\ ciRuns[i] <= 1
              /\ ciStatus[i] = "failure" =>
                    \A j \in (i + 1)..Len(ciStatus) :
                        ~GuardedByFailure(j) => ciRuns[j] = 0
        /\ (/\ ciConclusion \notin {"none", "skipped"}
            /\ \E i \in 1..Len(ciStatus) : ciExit[i] > 0)
              => ciConclusion = "failure"
        /\ \A k \in 1..Len(ciDeploys) :
              ciDeploys[k].dir = "changed-sources/destructiveChanges" =>
                    \A h \in 1..(k - 1) : ciDeploys[h].exit = 0

\* the push to develop failed in its delta deployment: the display step ran,
\* the destructive deployment was skipped and the job failed
C10_Witness ==
    /\ ciWorkflow = "develop"
    /\ ciConclusion = "failure"
    /\ ciStatus[8] = "failure"
    /\ ciExit[8] = 1
    /\ ciStatus[9] = "success"
    /\ ciStatus[10] = "skipped"
    /\ Len(ciDeploys) = 1

\* index of the Display deployment results on failure step
DisplayStep ==
    CHOOSE i \in 1..Len(Steps(ciWorkflow)) : Steps(ciWorkflow)[i].kind = "display"

\* a step that deploys the delta package failed
DeploymentStepFailed ==
    \E j \in 1..Len(ciStatus) :
        /\ Steps(ciWorkflow)[j].kind \in {"deploySpecified", "deployDelta"}
        /\ ciStatus[j] = "failure"

\* C11: in every workflow the Display deployment results on failure step
\* runs if and only if an earlier step of the job has failed, and when a
\* deployment step is the one that failed it prints deploy_result.json,
\* also after the run-specified-tests deployment of the pull-request
\* workflow
C11_DisplayDumpsDeployResult ==
    (ciWorkflow \in Workflows /\ ciStatus[DisplayStep] \notin {"pending"}
     /\ ciConclusion # "skipped") =>
        /\ ciRuns[DisplayStep] = 1
              <=> \E j \in 1..(DisplayStep - 1) : ciStatus[j] = "failure"
        /\ (ciRuns[DisplayStep] = 1 /\ DeploymentStepFailed)
              => ciDumped = "deploy_result.json"

\* index of the step of the given kind in the running workflow
StepOfKind(kind) ==
    CHOOSE i \in 1..Len(Steps(ciWorkflow)) : Steps(ciWorkflow)[i].kind = kind

\* both check-only deploy steps of the pull-request workflow are decided
\* and every step before them succeeded
CheckOnlyDecided ==
    /\ ciWorkflow = "pr"
    /\ ciStatus[StepOfKind("deploySpecified")] # "pending"
    /\ ciStatus[StepOfKind("deployDelta")] # "pending"
    /\ \A j \in 1..(StepOfKind("deploySpecified") - 1) : ciStatus[j] = "success"

\* C12: in the pull-request workflow, for every value of APEX_TESTS exactly
\* one of the two check-only deploy steps runs: the run-all-tests step if
\* and only if the selector is the literal all, otherwise the
\* run-specified-tests step with the selector unchanged as the value of
\* --tests, also when the selector is empty
C12_ExactlyOneCheckOnlyDeploy ==
    CheckOnlyDecided =>
        /\ (ciRuns[StepOfKind("deploySpecified")] = 1)
              # (ciRuns[StepOfKind("deployDelta")] = 1)
        /\ ciRuns[StepOfKind("deployDelta")] = 1 <=> ciApexTests = <<"a","l","l">>
        /\ \A k \in 1..Len(ciDeploys) :
              ciDeploys[k].step = StepOfKind("deploySpecified")
                    => ciDeploys[k].tests = ciApexTests

\* C13: in the push workflows and in the run-all branch of the
\* pull-request workflow the deployment uses RunLocalTests if and only if
\* the delta package holds a *.cls file and NoTestRun otherwise; the
\* develop workflow only targets the integration org and the main workflow
\* only the production org
C13_TestLevelFollowsApexClasses ==
    ciWorkflow \in Workflows =>
        \A k \in 1..Len(ciDeploys) :
            /\ Steps(ciWorkflow)[ciDeploys[k].step].kind = "deployDelta" =>
                  /\ ciDeploys[k].testLevel = "RunLocalTests" <=> ciHasCls
                  /\ ciDeploys[k].testLevel = "NoTestRun" <=> ~ciHasCls
            /\ ciWorkflow = "develop" => ciDeploys[k].org = "integration"
            /\ ciWorkflow = "main" => ciDeploys[k].org = "production"

\* the push to main found Apex classes, deployed the delta to production
\* with RunLocalTests and then deployed the destructive changes there
C13_Witness ==
    /\ ciWorkflow = "main"
    /\ ciHasCls
    /\ Len(ciDeploys) = 2
    /\ ciDeploys[1].testLevel = "RunLocalTests"
    /\ ciDeploys[1].org = "production"
    /\ ciDeploys[1].dryRun = FALSE
    /\ ciDeploys[2].dir = "changed-sources/destructiveChanges"
    /\ ciDeploys[2].org = "production"
    /\ ciConclusion = "success"

\* C14: the three fields are updated independently: handleNameChange
\* changes only userName and issues no backend call; a settled
\* handleGetGreeting changes only greeting; a settled loadCurrentDateTime
\* changes only currentDateTime
C14_FieldsAreIndependent ==
    [][/\ (userName' # userName \/ inputValue' # inputValue)
            => /\ greeting' = greeting
               /\ currentDateTime' = currentDateTime
               /\ greetReqs' = greetReqs
               /\ dtReq' = dtReq
       /\ lastSettled' # lastSettled
            => /\ currentDateTime' = currentDateTime
               /\ userName' = userName
       /\ (dtReq.status = "pending" /\ dtReq'.status # "pending")
            => /\ greeting' = greeting
               /\ userName' = userName]_vars

\* with the name Al entered, a getGreeting call and the date/time call have
\* both been rejected: each field shows its own outcome
C14_Witness ==
    /\ userName = Str(<<"A","l">>)
    /\ dtReq.status = "rejected"
    /\ currentDateTime = Str(ErrorLoadingText)
    /\ lastSettled # 0
    /\ LastCall.status = "rejected"
    /\ LastCall.name = Str(<<>>)
    /\ greeting = Str(ErrorPrefix \o SomethingWentWrong)

====
